---- MODULE Spec2Model ----
(***************************************************************************)
(* The conf.json test-playbook reconciliation of the YAML formatter        *)
(* (demisto_sdk/commands/format/update_generic_yml.py, BaseUpdateYML):     *)
(* update_conf_json registers a content item's declared test playbooks in  *)
(* the shared registry file, remove_from_conf_json removes them when the   *)
(* item is deprecated.  Both read the whole file, change the parsed        *)
(* document in memory and write the whole file back.                       *)
(*                                                                         *)
(* Specifications:                                                         *)
(*   Spec         one formatter calling the two registry handlers          *)
(*   SpecRace     two formatters on the same registry file                 *)
(*   SpecFormat   update_yml, run_format and format_file on the item YAML  *)
(*   SpecTests    update_tests                                             *)
(*   SpecFixture  the fixture writer ConfJSON (TestSuite/conf_json.py)     *)
(***************************************************************************)
EXTENDS Integers, Sequences, FiniteSets, TLC

(***************************************************************************)
(* Bounds of the model.                                                    *)
(***************************************************************************)
\* longest declared test list (data["tests"]) of the formatted item
MaxDeclared == 2
\* longest tests list of a registry document the formatter starts from
MaxRegistry == 3
\* longest declared test list of a caller in the two-caller model
MaxRaceDeclared == 1
\* the longest tests list of the item whose YAML is formatted
MaxFormatDeclared == 1

(***************************************************************************)
(* Strings.  Test-playbook ids are sequences of characters, so that        *)
(* test.lower() and the substring test  "no test" in ...  are computed.    *)
(***************************************************************************)
UpperChars == <<"A","B","C","D","E","F","G","H","I","J","K","L","M",
                "N","O","P","Q","R","S","T","U","V","W","X","Y","Z">>
LowerChars == <<"a","b","c","d","e","f","g","h","i","j","k","l","m",
                "n","o","p","q","r","s","t","u","v","w","x","y","z">>

\* str.lower() on one character
LowerChar(c) ==
    IF \E i \in DOMAIN UpperChars : UpperChars[i] = c
    THEN LowerChars[CHOOSE i \in DOMAIN UpperChars : UpperChars[i] = c]
    ELSE c

\* str.lower()
Lower(s) == [i \in DOMAIN s |-> LowerChar(s[i])]

\* Python's  sub in s  on strings
StrIn(sub, s) ==
    \E i \in 0..(Len(s) - Len(sub)) : SubSeq(s, i + 1, i + Len(sub)) = sub

\* the literals "no test" and "no tests" of the sentinel checks
NoTestLiteral == <<"n","o"," ","t","e","s","t">>
NoTestsLiteral == <<"n","o"," ","t","e","s","t","s">>

\* test-playbook ids the content items declare
TPB1 == <<"T","P","B","1">>
TPB2 == <<"T","P","B","2">>
\* a "no tests" sentinel as written in content YAML files
NoTests == <<"N","o"," ","t","e","s","t","s">>

TestIds == {TPB1, TPB2, NoTests}
PlaybookIds == {TPB1, TPB2}

\* the content item being formatted, and another content item of the repository
Slack == "Slack"
Jira == "Jira"

FileTypes == {"integration", "script", "playbook"}

\* all sequences over S of length at most n
SeqsUpTo(S, n) == UNION {[1..k -> S] : k \in 0..n}

(***************************************************************************)
(* The registry document (conf.json).  A TestEntry is a record; its        *)
(* optional integrations field is absent, one identifier or a list.        *)
(***************************************************************************)
Absent == [kind |-> "absent", ids |-> <<>>]
Scalar(id) == [kind |-> "scalar", ids |-> <<id>>]
List(ids) == [kind |-> "list", ids |-> ids]

Entry(playbookID, integrations) ==
    [playbookID |-> playbookID, integrations |-> integrations]

\* the members of a sequence
Range(s) == {s[i] : i \in DOMAIN s}

\* whether the integrations field names the content item
IntegrationsContain(integrations, content_item_id) ==
    content_item_id \in Range(integrations.ids)

\* the identifiers of an integrations field other than the content item's
OtherIntegrations(integrations, content_item_id) ==
    SelectSeq(integrations.ids, LAMBDA x : x # content_item_id)

\* a parsed registry document; has_tests is whether the "tests" key is there
Doc(has_tests, tests, st, si, ui, dt) ==
    [has_tests |-> has_tests, tests |-> tests, skipped_tests |-> st,
     skipped_integrations |-> si, unmockable_integrations |-> ui,
     docker_thresholds |-> dt]

\* the registry file at CONF_PATH: absent, or holding a document
NoDoc == Doc(FALSE, <<>>, {}, {}, {}, {})
NoFile == [exists |-> FALSE, doc |-> NoDoc]
File(doc) == [exists |-> TRUE, doc |-> doc]

(***************************************************************************)
(* get_not_registered_tests and search_and_delete_from_conf live in        *)
(* demisto_sdk/commands/common/tools.py; they are modelled from sections   *)
(* 4.1 of the specification (findUnregistered, deregisterTests).           *)
(***************************************************************************)
\* whether a declared id is a "no tests" sentinel
IsSentinel(test) == StrIn(NoTestLiteral, Lower(test))

\* whether the registry links the test playbook to the content item
is_registered(conf_json_tests, content_item_id, file_type, test) ==
    \E i \in DOMAIN conf_json_tests :
        /\ conf_json_tests[i].playbookID = test
        /\ file_type = "integration" =>
               IntegrationsContain(conf_json_tests[i].integrations, content_item_id)

\* findUnregistered: the declared non-sentinel ids with no match, in declared order
get_not_registered_tests(conf_json_tests, content_item_id, file_type, test_playbooks) ==
    SelectSeq(test_playbooks,
              LAMBDA test : /\ ~IsSentinel(test)
                            /\ ~is_registered(conf_json_tests, content_item_id,
                                              file_type, test))

\* deregisterTests, kind integration: whether the entry is removed entirely
integration_entry_removed(entry, content_item_id) ==
    /\ IntegrationsContain(entry.integrations, content_item_id)
    /\ OtherIntegrations(entry.integrations, content_item_id) = <<>>

\* deregisterTests, kind integration: the entry as it is kept
integration_entry_kept(entry, content_item_id) ==
    IF /\ entry.integrations.kind = "list"
       /\ IntegrationsContain(entry.integrations, content_item_id)
    THEN Entry(entry.playbookID,
               List(OtherIntegrations(entry.integrations, content_item_id)))
    ELSE entry

\* deregisterTests
search_and_delete_from_conf(conf_json_tests, content_item_id, file_type, test_playbooks, no_test_playbooks_explicitly) ==
    IF no_test_playbooks_explicitly
    THEN conf_json_tests
    ELSE IF file_type = "integration"
    THEN LET kept == SelectSeq(conf_json_tests,
                        LAMBDA e : ~integration_entry_removed(e, content_item_id))
         IN  [i \in DOMAIN kept |-> integration_entry_kept(kept[i], content_item_id)]
    ELSE SelectSeq(conf_json_tests,
                   LAMBDA e : e.playbookID \notin Range(test_playbooks))

\* _get_file_id: the id the YAML loader gives the content item
get_file_id(file_type, d) == d.id

(***************************************************************************)
(* BaseUpdateYML: the code of update_generic_yml.py.                       *)
(***************************************************************************)
\* the values of assume_answer: True, False, or None (ask the user)
AssumeAnswers == {"True", "False", "None"}

\* mutation: the sentinel check asks for every declared test, not for any
update_all_no_test_playbooks(test_playbooks) ==
    /\ test_playbooks # <<>>
    /\ \A i \in DOMAIN test_playbooks :
           StrIn(NoTestLiteral, Lower(test_playbooks[i]))

\* update_conf_json's  any(test for test in test_playbooks if "no test" in test.lower())
update_no_test_playbooks_explicitly(test_playbooks) ==
    \E i \in DOMAIN test_playbooks :
        StrIn(NoTestLiteral, Lower(test_playbooks[i]))

\* mutation: the sentinel check without test.lower()
remove_no_test_without_lower(related_test_playbook) ==
    \E i \in DOMAIN related_test_playbook :
        \/ StrIn(NoTestLiteral, related_test_playbook[i])
        \/ StrIn(NoTestsLiteral, related_test_playbook[i])

\* mutation: the flag is set only when every declared test is a sentinel
remove_no_test_in_all(related_test_playbook) ==
    /\ related_test_playbook # <<>>
    /\ \A i \in DOMAIN related_test_playbook :
           \/ StrIn(NoTestLiteral, Lower(related_test_playbook[i]))
           \/ StrIn(NoTestsLiteral, Lower(related_test_playbook[i]))

\* remove_from_conf_json's  any(... if ("no test" in test.lower()) or ("no tests" in test.lower()))
remove_no_test_playbooks_explicitly(related_test_playbook) ==
    \E i \in DOMAIN related_test_playbook :
        \/ StrIn(NoTestLiteral, Lower(related_test_playbook[i]))
        \/ StrIn(NoTestsLiteral, Lower(related_test_playbook[i]))

\* mutation: a missing file is read as an empty registry
load_conf_file_or_default(file) ==
    IF file.exists
    THEN [raised |-> "none", content |-> file.doc]
    ELSE [raised |-> "none", content |-> Doc(TRUE, <<>>, {}, {}, {}, {})]

\* _load_conf_file: get_file(CONF_PATH, raise_on_error=True)
load_conf_file(file) ==
    IF file.exists
    THEN [raised |-> "none", content |-> file.doc]
    ELSE [raised |-> "FileNotFoundError", content |-> NoDoc]

\* mutation: only the tests key is written
save_tests_only(conf_json_content) ==
    File(Doc(conf_json_content.has_tests, conf_json_content.tests, {}, {}, {}, {}))

\* _save_to_conf_json: the whole document overwrites the file
save_to_conf_json(conf_json_content) == File(conf_json_content)

\* mutation: the integration's entries get no integrations field
get_test_playbooks_configuration_bare(test_playbooks, content_item_id, file_type) ==
    IF file_type \in {"integration", "playbook", "script"}
    THEN [i \in DOMAIN test_playbooks |-> Entry(test_playbooks[i], Absent)]
    ELSE <<>>

\* get_test_playbooks_configuration
get_test_playbooks_configuration(test_playbooks, content_item_id, file_type) ==
    IF file_type = "integration"
    THEN [i \in DOMAIN test_playbooks |->
             Entry(test_playbooks[i], Scalar(content_item_id))]
    ELSE IF file_type \in {"playbook", "script"}
    THEN [i \in DOMAIN test_playbooks |-> Entry(test_playbooks[i], Absent)]
    ELSE <<>>

\* what a handler did: the exception that left it ("none": it returned), whether
\* it wrote the file, the document it held last, the ids it found unregistered,
\* whether it consulted the confirmation callback, the entries it appended
Outcome(raised, wrote, content, not_registered, asked, added) ==
    [raised |-> raised, wrote |-> wrote, content |-> content,
     not_registered |-> not_registered, asked |-> asked, added |-> added]

\* a handler that returned before it changed anything
Skipped(content) == Outcome("none", FALSE, content, <<>>, FALSE, <<>>)

\* mutation: only None is told from the other answers, False counts as yes
should_edit_unless_asked(assume, confirm) ==
    IF assume = "None" THEN confirm ELSE TRUE

\* update_conf_json's  if self.assume_answer / elif self.assume_answer is False / else click.confirm
should_edit_conf_json(assume, confirm) ==
    IF assume = "True" THEN TRUE
    ELSE IF assume = "False" THEN FALSE
    ELSE confirm

\* mutation: the document is saved whether or not anything was unregistered
register_saving_always(conf_json_content, d, file_type, assume, confirm) ==
    LET content_item_id == get_file_id(file_type, d)
        not_registered_tests ==
            get_not_registered_tests(conf_json_content.tests, content_item_id,
                                     file_type, d.tests)
        added == get_test_playbooks_configuration(not_registered_tests,
                                                  content_item_id, file_type)
    IN  IF should_edit_conf_json(assume, confirm) \/ not_registered_tests = <<>>
        THEN Outcome("none", TRUE,
                     [conf_json_content EXCEPT !.tests = @ \o added],
                     not_registered_tests,
                     assume = "None" /\ not_registered_tests # <<>>, added)
        ELSE Outcome("none", FALSE, conf_json_content,
                     not_registered_tests, assume = "None", <<>>)

\* update_conf_json from  content_item_id = _get_file_id(...)  on (lines 325-352)
register_not_registered_tests(conf_json_content, d, file_type, assume, confirm) ==
    LET content_item_id == get_file_id(file_type, d)
        not_registered_tests ==
            get_not_registered_tests(conf_json_content.tests, content_item_id,
                                     file_type, d.tests)
        added == get_test_playbooks_configuration(not_registered_tests,
                                                  content_item_id, file_type)
    IN  IF not_registered_tests = <<>>
        THEN Skipped(conf_json_content)
        ELSE IF should_edit_conf_json(assume, confirm)
        THEN Outcome("none", TRUE,
                     [conf_json_content EXCEPT !.tests = @ \o added],
                     not_registered_tests, assume = "None", added)
        ELSE Outcome("none", FALSE, conf_json_content,
                     not_registered_tests, assume = "None", <<>>)

\* mutation: a document with no tests key is taken as one with no tests
update_loaded_defaulting_tests(conf_json_content, d, file_type, assume, confirm) ==
    register_not_registered_tests(
        [conf_json_content EXCEPT !.has_tests = TRUE, !.tests = <<>>],
        d, file_type, assume, confirm)

\* update_conf_json from the loaded document on (lines 324-352);
\* conf_json_content["tests"] raises KeyError when the key is missing
update_loaded_conf_json(conf_json_content, d, file_type, assume, confirm) ==
    IF ~conf_json_content.has_tests
    THEN Outcome("KeyError", FALSE, conf_json_content, <<>>, FALSE, <<>>)
    ELSE register_not_registered_tests(conf_json_content, d, file_type,
                                       assume, confirm)

\* update_conf_json up to the loaded document (lines 309-323): whether it goes on
update_reads_conf_json(d) ==
    /\ d.tests # <<>>
    /\ ~update_no_test_playbooks_explicitly(d.tests)

\* update_conf_json
update_conf_json(file, d, file_type, assume, confirm) ==
    IF ~update_reads_conf_json(d)
    THEN Skipped(NoDoc)
    ELSE LET loaded == load_conf_file(file)
         IN  IF loaded.raised = "FileNotFoundError"
             THEN Skipped(NoDoc)
             ELSE update_loaded_conf_json(loaded.content, d, file_type,
                                          assume, confirm)

\* remove_from_conf_json's result for a document and the arguments that
\* search_and_delete_from_conf gets
removed_with(conf_json_content, content_item_id, file_type, test_playbooks, no_test_playbooks_explicitly) ==
    IF ~conf_json_content.has_tests
    THEN Outcome("KeyError", FALSE, conf_json_content, <<>>, FALSE, <<>>)
    ELSE Outcome("none", TRUE,
                 [conf_json_content EXCEPT !.tests =
                     search_and_delete_from_conf(
                         @, content_item_id, file_type, test_playbooks,
                         no_test_playbooks_explicitly)],
                 <<>>, FALSE, <<>>)

\* mutation: the flag is passed negated
remove_loaded_negated_flag(conf_json_content, d, file_type, content_item_id) ==
    removed_with(conf_json_content, content_item_id, file_type, d.tests,
                 ~remove_no_test_playbooks_explicitly(d.tests))

\* mutation: the file type is taken to be integration whatever the caller says
remove_loaded_as_integration(conf_json_content, d, file_type, content_item_id) ==
    removed_with(conf_json_content, content_item_id, "integration", d.tests,
                 remove_no_test_playbooks_explicitly(d.tests))

\* mutation: the result of search_and_delete_from_conf is not stored
remove_loaded_result_dropped(conf_json_content, d, file_type, content_item_id) ==
    IF ~conf_json_content.has_tests
    THEN Outcome("KeyError", FALSE, conf_json_content, <<>>, FALSE, <<>>)
    ELSE Outcome("none", TRUE, conf_json_content, <<>>, FALSE, <<>>)

\* remove_from_conf_json from the loaded document on (lines 292-300)
remove_loaded_from_conf_json(conf_json_content, d, file_type, content_item_id) ==
    removed_with(conf_json_content, content_item_id, file_type, d.tests,
                 remove_no_test_playbooks_explicitly(d.tests))

\* remove_from_conf_json
remove_from_conf_json(file, d, file_type, content_item_id) ==
    LET loaded == load_conf_file(file)
    IN  IF loaded.raised = "FileNotFoundError"
        THEN Skipped(NoDoc)
        ELSE remove_loaded_from_conf_json(loaded.content, d, file_type,
                                          content_item_id)

\* mutation: saving appends the handler's new entries to the file as it is now
file_after_appending(file, outcome) ==
    IF outcome.wrote
    THEN save_to_conf_json([outcome.content EXCEPT
                               !.tests = file.doc.tests \o outcome.added])
    ELSE file

\* the registry file after a handler: rewritten only if the handler saved
file_after(file, outcome) ==
    IF outcome.wrote THEN save_to_conf_json(outcome.content) ELSE file

(***************************************************************************)
(* The YAML side of the formatter: update_tests, update_yml with           *)
(* update_deprecate, run_format and format_file.  Of the item's YAML the   *)
(* keys id, tests, deprecated, description and comment are kept; the steps *)
(* of update_yml that come before copy_tests_from_old_file work on other   *)
(* keys (name, fromversion, version) of an item whose name is its id.      *)
(***************************************************************************)
\* the YAML of a content item as loaded: not deprecated, no description yet
Item(id, tests) ==
    [id |-> id, tests |-> tests, deprecated |-> FALSE,
     description |-> <<>>, comment |-> <<>>]

\* the sentinel update_tests writes
AutoFormatted ==
    <<"N","o"," ","t","e","s","t","s"," ","(","a","u","t","o"," ",
      "f","o","r","m","a","t","t","e","d",")">>

\* constants of demisto_sdk/commands/common/constants.py
NO_TESTS_DEPRECATED ==
    <<"N","o"," ","t","e","s","t","s"," ","(","d","e","p","r","e","c","a","t","e","d",")">>
INTEGRATION == "integration"
PLAYBOOK == "playbook"
SCRIPT == "script"

\* constants of demisto_sdk/commands/format/format_constants.py
SUCCESS_RETURN_CODE == 0
ERROR_RETURN_CODE == 1
SKIP_RETURN_CODE == 2

\* Python's truth value of an int
Truthy(n) == n # 0

\* self.old_file: nothing (a new file), or the YAML of the file's old version
NoOldFile == [exists |-> FALSE, tests |-> <<>>]
OldFile(tests) == [exists |-> TRUE, tests |-> tests]

\* copy_tests_from_old_file
copy_tests_from_old_file(d, old) ==
    IF old.exists /\ d.tests = <<>> /\ old.tests # <<>>
    THEN [d EXCEPT !.tests = old.tests]
    ELSE d

\* what input() gives update_deprecate: a line the user typed, or end of input
Typed(text) == [eof |-> FALSE, text |-> text]
EndOfInput == [eof |-> TRUE, text |-> ""]
UserInputs == {Typed(""), Typed("Slack V3"), EndOfInput}

\* update_deprecate up to the call of input() (lines 367-386)
marked_deprecated(d, file_type) ==
    IF d.tests # <<>> \/ file_type \in {INTEGRATION, PLAYBOOK, SCRIPT}
    THEN [d EXCEPT !.deprecated = TRUE, !.tests = <<NO_TESTS_DEPRECATED>>]
    ELSE [d EXCEPT !.deprecated = TRUE]

\* update_deprecate: input() raises EOFError at end of input
update_deprecate(d, file_type, user_input) ==
    LET description_field ==
            IF file_type \in {INTEGRATION, PLAYBOOK} THEN "description"
            ELSE "comment"
        text == IF user_input.text # ""
                THEN <<"Deprecated. Use ", user_input.text, " instead.">>
                ELSE <<"Deprecated. No available replacement.">>
        d1 == marked_deprecated(d, file_type)
    IN  IF user_input.eof
        THEN [raised |-> "EOFError", data |-> d1]
        ELSE [raised |-> "none", data |-> [d1 EXCEPT ![description_field] = text]]

\* what update_yml did: the exception that left it, self.data and the registry
\* file after it, whether it called remove_from_conf_json and with which
\* self.data
Formatted(raised, d, file, removed, removed_data) ==
    [raised |-> raised, data |-> d, conf |-> file,
     removed |-> removed, removed_data |-> removed_data]

\* mutation: update_deprecate runs before remove_from_conf_json
update_yml_deprecating_first(file, d, old, source_type, deprecating, file_type, user_input) ==
    LET d1 == copy_tests_from_old_file(d, old)
        deprecated == update_deprecate(d1, file_type, user_input)
        removes == source_type \in {"integration", "script"}
        outcome == remove_from_conf_json(
                       file, deprecated.data, source_type,
                       get_file_id(source_type, deprecated.data))
    IN  IF ~deprecating
        THEN Formatted("none", d1, file, FALSE, d1)
        ELSE IF deprecated.raised # "none"
        THEN Formatted(deprecated.raised, deprecated.data, file, FALSE, d1)
        ELSE IF removes
        THEN Formatted(outcome.raised, deprecated.data,
                       file_after(file, outcome), TRUE, deprecated.data)
        ELSE Formatted("none", deprecated.data, file, FALSE, d1)

\* update_yml from copy_tests_from_old_file on (lines 161-174)
update_yml(file, d, old, source_type, deprecating, file_type, user_input) ==
    LET d1 == copy_tests_from_old_file(d, old)
        removes == source_type \in {"integration", "script"}
        outcome == remove_from_conf_json(file, d1, source_type,
                                         get_file_id(source_type, d1))
        file1 == IF removes THEN file_after(file, outcome) ELSE file
        deprecated == update_deprecate(d1, file_type, user_input)
    IN  IF ~deprecating
        THEN Formatted("none", d1, file, FALSE, d1)
        ELSE IF removes /\ outcome.raised # "none"
        THEN Formatted(outcome.raised, d1, file1, TRUE, d1)
        ELSE Formatted(deprecated.raised, deprecated.data, file1, removes, d1)

\* the destination file: as it was before formatting, or the YAML saved to it
NotSaved == [saved |-> FALSE, data |-> Item(Slack, <<>>)]
save_yml_to_destination_file(d) == [saved |-> TRUE, data |-> d]

\* what run_format did: update_yml's part, the destination file after it and
\* the code it returned
Ran(formatted, out, format_res) ==
    [formatted |-> formatted, output_file |-> out, format_res |-> format_res]

\* mutation: the YAML is saved in a finally clause
run_format_saving_always(file, d, old, source_type, deprecating, out, user_input) ==
    LET formatted == update_yml(file, d, old, source_type, deprecating, "",
                                user_input)
    IN  Ran(formatted, save_yml_to_destination_file(formatted.data),
            IF formatted.raised = "none" THEN SUCCESS_RETURN_CODE
            ELSE ERROR_RETURN_CODE)

\* run_format: update_yml is called with no file_type, so with ""
run_format(file, d, old, source_type, deprecating, out, user_input) ==
    LET formatted == update_yml(file, d, old, source_type, deprecating, "",
                                user_input)
    IN  IF formatted.raised = "none"
        THEN Ran(formatted, save_yml_to_destination_file(formatted.data),
                 SUCCESS_RETURN_CODE)
        ELSE Ran(formatted, out, ERROR_RETURN_CODE)

\* format_file's  if format_res:  whether initiate_file_validator is called
validates(format_res) == ~Truthy(format_res)

\* format_file's return value; validation is what initiate_file_validator
\* returns when it is called
format_file_returns(format_res, validation) ==
    IF validates(format_res)
    THEN <<format_res, validation>>
    ELSE <<format_res, SKIP_RETURN_CODE>>

\* a command of an item or of a test playbook, and a test playbook of the pack
Command(id, source) == [id |-> id, source |-> source]
TestPlaybook(id, commands, scripts) ==
    [id |-> id, commands |-> commands, scripts |-> scripts]

\* the pack's TestPlaybooks directory: missing, or the test playbooks in it
NoDir == [exists |-> FALSE, test_playbooks |-> <<>>]
Dir(test_playbooks) == [exists |-> TRUE, test_playbooks |-> test_playbooks]

\* the index of the first command with that id (commands_names.index)
FirstNamed(commands, name) ==
    CHOOSE i \in DOMAIN commands :
        /\ commands[i].id = name
        /\ \A j \in 1..(i - 1) : commands[j].id # name

\* update_tests, the for loop over tpb_commands (lines 223-241): whether a
\* command of the test playbook is one of the item's
command_used(tpb_command, file_id, commands) ==
    /\ ~(tpb_command.source # "" /\ file_id # "" /\ file_id # tpb_command.source)
    /\ \E i \in DOMAIN commands : commands[i].id = tpb_command.id
    /\ LET command_source == commands[FirstNamed(commands, tpb_command.id)].source
       IN  command_source = tpb_command.source \/ command_source = ""

\* update_tests, the body of the loop over the test playbooks (lines 209-249):
\* whether the test playbook's id is appended
is_test_of(test_playbook, file_id, commands, scripts) ==
    IF scripts = <<>> /\ commands = <<>>
    THEN TRUE
    ELSE \/ \E i \in DOMAIN test_playbook.commands :
               command_used(test_playbook.commands[i], file_id, commands)
         \/ \E i \in DOMAIN test_playbook.scripts :
               test_playbook.scripts[i] \in Range(scripts)

\* update_tests, test_playbook_ids after the loop
found_test_playbook_ids(dir, file_id, commands, scripts) ==
    LET found == SelectSeq(dir.test_playbooks,
                           LAMBDA t : is_test_of(t, file_id, commands, scripts))
    IN  [i \in DOMAIN found |-> found[i].id]

\* update_tests, whether click.confirm is called (lines 257-265)
asks_about_no_tests(assume, adding_tests) ==
    ~(assume = "True" \/ ~adding_tests) /\ assume # "False"

\* mutation: add_tests is not looked at
should_modify_whatever_add_tests(assume, adding_tests, confirm) ==
    IF assume = "True" THEN TRUE
    ELSE IF assume = "False" THEN FALSE
    ELSE confirm

\* update_tests, should_modify_yml_tests (lines 257-265)
should_modify_yml_tests(assume, adding_tests, confirm) ==
    IF assume = "True" \/ ~adding_tests THEN TRUE
    ELSE IF assume = "False" THEN FALSE
    ELSE confirm

\* what update_tests did: self.data after it, the ids it found, whether it
\* asked
Tested(d, test_playbook_ids, asked) ==
    [data |-> d, test_playbook_ids |-> test_playbook_ids, asked |-> asked]

\* update_tests
update_tests(d, assume, adding_tests, dir, commands, scripts, confirm) ==
    IF d.tests # <<>>
    THEN Tested(d, <<>>, FALSE)
    ELSE LET test_playbook_ids ==
                 IF dir.exists
                 THEN found_test_playbook_ids(dir, d.id, commands, scripts)
                 ELSE <<>>
             d1 == IF dir.exists
                   THEN [d EXCEPT !.tests = test_playbook_ids]
                   ELSE d
         IN  IF test_playbook_ids # <<>>
             THEN Tested(d1, test_playbook_ids, FALSE)
             ELSE Tested(IF should_modify_yml_tests(assume, adding_tests, confirm)
                         THEN [d1 EXCEPT !.tests = <<AutoFormatted>>]
                         ELSE d1,
                         <<>>, asks_about_no_tests(assume, adding_tests))

(***************************************************************************)
(* The fixture writer, TestSuite/conf_json.py.  A Python value is tagged   *)
(* with its type: None, a list by its items, a dict by its keys; the JSON  *)
(* text is kept as the value each top-level key is written with.           *)
(***************************************************************************)
None == [kind |-> "None", items |-> <<>>]
PyList(items) == [kind |-> "list", items |-> items]
PyDict(keys) == [kind |-> "dict", items |-> keys]

\* json.dumps of one value: None is written null, a list as an array, a dict
\* as an object
json_dumps_value(v) ==
    [kind |-> CASE v.kind = "None" -> "null"
                [] v.kind = "list" -> "array"
                [] v.kind = "dict" -> "object",
     items |-> v.items]

\* json.dumps of a dict: one member per key
json_dumps(d) == [k \in DOMAIN d |-> json_dumps_value(d[k])]

\* ConfJSON.write_json: the text written to the file
write_json(tests, skipped_tests, skipped_integrations, unmockable_integrations, docker_thresholds) ==
    json_dumps(
        [tests |-> IF tests = None THEN PyList(<<>>) ELSE tests,
         skipped_tests |-> IF skipped_tests = None THEN None ELSE skipped_tests,
         skipped_integrations |->
             IF skipped_integrations = None THEN PyList(<<>>)
             ELSE skipped_integrations,
         unmockable_integrations |->
             IF unmockable_integrations = None THEN PyList(<<>>)
             ELSE unmockable_integrations,
         docker_thresholds |->
             IF docker_thresholds = None THEN PyDict(<<>>)
             ELSE docker_thresholds])

\* the arguments of a write_json call, None where the caller leaves one unset
Given(tests, skipped_tests, skipped_integrations, unmockable_integrations, docker_thresholds) ==
    [tests |-> tests, skipped_tests |-> skipped_tests,
     skipped_integrations |-> skipped_integrations,
     unmockable_integrations |-> unmockable_integrations,
     docker_thresholds |-> docker_thresholds]

\* the fixture after write_json was called with the arguments g
Written(g) ==
    [given |-> g,
     file |-> write_json(g.tests, g.skipped_tests, g.skipped_integrations,
                         g.unmockable_integrations, g.docker_thresholds)]

\* what test code passes to write_json
TestsGiven == {None, PyList(<<>>), PyList(<<"TPB1">>)}
SkippedGiven == {None, PyList(<<>>), PyDict(<<"Okta">>)}
ThresholdsGiven == {None, PyDict(<<>>), PyDict(<<"demisto/python3">>)}

\* ConfJSON.__init__ ends with self.write_json()
Constructed == Written(Given(None, None, None, None, None))

(***************************************************************************)
(* State.                                                                  *)
(*   conf              the registry file at CONF_PATH                      *)
(*   data              self.data of the formatter: the content item's id   *)
(*                     and its tests key                                   *)
(*   source_file_type  the item's type, the file_type the handlers get     *)
(*   assume_answer     self.assume_answer                                  *)
(*   call              the handler call that ended last: what it was       *)
(*                     given and what it did                               *)
(*   callers           two formatter processes working on the same file    *)
(*                     (the two-caller specification only)                 *)
(*   fixture           the ConfJSON test fixture: the arguments of its     *)
(*                     last write_json call and the file it wrote (the     *)
(*                     fixture specification only)                         *)
(*   deprecate         self.deprecate                                      *)
(*   add_tests         self.add_tests                                      *)
(*   old_file          self.old_file                                       *)
(*   output_file       the destination file of the formatted YAML          *)
(*   run               the update_tests, update_yml, run_format or         *)
(*                     format_file call that ended last (the YAML          *)
(*                     specification only)                                 *)
(***************************************************************************)
VARIABLES conf, data, source_file_type, assume_answer, call, callers, fixture,
          deprecate, add_tests, old_file, output_file, run

\* the formatter's state on the YAML side
yml_vars == <<deprecate, add_tests, old_file, output_file, run>>

vars == <<conf, data, source_file_type, assume_answer, call, callers, fixture,
          yml_vars>>

\* the entries registry documents are built from
BaseTests ==
    << Entry(TPB1, Scalar(Slack)),
       Entry(TPB2, Absent),
       Entry(TPB1, List(<<Jira, Slack, "Okta">>)),
       Entry(TPB2, Scalar(Jira)),
       Entry(TPB2, List(<<Slack>>)),
       Entry(TPB1, Absent) >>

\* the tests lists of the registry documents the formatter starts from
InitialTests ==
    { SelectSeq(BaseTests, LAMBDA e : e \in S) :
        S \in {T \in SUBSET Range(BaseTests) : Cardinality(T) <= MaxRegistry} }

\* a well-formed document, and one with no tests key
WellFormed(tests) == Doc(TRUE, tests, {"TPB9"}, {"Okta"}, {"Jira"}, {"demisto/python3"})
Malformed == Doc(FALSE, <<>>, {"TPB9"}, {"Okta"}, {"Jira"}, {"demisto/python3"})

InitialFiles ==
    {NoFile, File(Malformed)} \cup {File(WellFormed(t)) : t \in InitialTests}

\* what the call record keeps of an outcome
Summary(outcome) ==
    [raised |-> outcome.raised, wrote |-> outcome.wrote,
     not_registered |-> outcome.not_registered, asked |-> outcome.asked,
     added |-> outcome.added]

\* no handler has been called yet
NoCall ==
    [op |-> "none", pre |-> NoFile, file_type |-> "none", tests |-> <<>>,
     outcome |-> Summary(Skipped(NoDoc)), added_before |-> <<>>,
     data_after |-> Item(Slack, <<>>),
     answer |-> FALSE, explicitly |-> FALSE]

\* no update_tests, update_yml, run_format or format_file call has ended yet
NoRun ==
    [op |-> "none", data |-> Item(Slack, <<>>), conf |-> NoFile,
     output_file |-> NotSaved, file_type |-> "", raised |-> "none",
     escaped |-> FALSE, removed |-> FALSE, removed_data |-> Item(Slack, <<>>),
     returned |-> <<>>, validated |-> FALSE, test_playbook_ids |-> <<>>,
     asked |-> FALSE, answer |-> FALSE]

\* a formatter built with the defaults of __init__ that has formatted nothing
Unformatted ==
    /\ deprecate = FALSE
    /\ add_tests = TRUE
    /\ old_file = NoOldFile
    /\ output_file = NotSaved
    /\ run = NoRun

Init ==
    /\ conf \in InitialFiles
    /\ data \in {Item(Slack, t) : t \in SeqsUpTo(TestIds, MaxDeclared)}
    /\ source_file_type \in FileTypes
    /\ assume_answer \in AssumeAnswers
    /\ call = NoCall
    /\ callers = <<>>
    /\ fixture = Constructed
    /\ Unformatted

\* the record of a handler call; answer is what click.confirm returned when
\* update_conf_json called it, explicitly the no_test_playbooks_explicitly that
\* remove_from_conf_json gave to search_and_delete_from_conf
Called(op, outcome, answer, explicitly) ==
    [op |-> op, pre |-> conf, file_type |-> source_file_type,
     tests |-> data.tests, outcome |-> Summary(outcome),
     added_before |-> call.outcome.added, data_after |-> data',
     answer |-> answer, explicitly |-> explicitly]

\* the formatter calls update_conf_json(file_type); confirm is what the user
\* would answer to click.confirm
UpdateConfJson ==
    \E confirm \in BOOLEAN :
        LET outcome == update_conf_json(conf, data, source_file_type,
                                        assume_answer, confirm)
        IN  /\ conf' = file_after(conf, outcome)
            /\ UNCHANGED <<data, source_file_type, assume_answer, callers, fixture,
                         yml_vars>>
            /\ call' = Called("update_conf_json", outcome,
                               outcome.asked /\ confirm, FALSE)

\* the formatter calls remove_from_conf_json(file_type, content_item_id)
RemoveFromConfJson ==
    LET outcome == remove_from_conf_json(conf, data, source_file_type,
                                         get_file_id(source_file_type, data))
    IN  /\ conf' = file_after(conf, outcome)
        /\ UNCHANGED <<data, source_file_type, assume_answer, callers, fixture,
                         yml_vars>>
        /\ call' = Called("remove_from_conf_json", outcome, FALSE,
                           /\ outcome.wrote
                           /\ remove_no_test_playbooks_explicitly(data.tests))

Next ==
    \/ UpdateConfJson
    \/ RemoveFromConfJson

Spec == Init /\ [][Next]_vars

(***************************************************************************)
(* Two formatter processes on the same registry file.  Each runs one       *)
(* handler; the file is read in one step (load_conf_file) and written in   *)
(* a later one (save_to_conf_json), and nothing orders the steps of one    *)
(* process against the other's.                                            *)
(***************************************************************************)
Callers == {1, 2}

\* the content item each process formats
ItemOf(p) == IF p = 1 THEN Slack ELSE Jira

\* the registry files the two processes start from
RaceFiles ==
    {NoFile, File(Malformed), File(WellFormed(<<>>)),
     File(WellFormed(<<Entry(TPB1, List(<<Jira, Slack, "Okta">>))>>))}

\* a process before its handler runs
Idle(op, d, file_type, assume) ==
    [pc |-> "idle", op |-> op, data |-> d, file_type |-> file_type,
     assume_answer |-> assume, conf_json_content |-> NoDoc,
     outcome |-> Summary(Skipped(NoDoc)), nth_write |-> 0]

RaceConfigs(p) ==
    { Idle(op, Item(ItemOf(p), t), ft, a) :
        op \in {"update_conf_json", "remove_from_conf_json"},
        t \in SeqsUpTo(PlaybookIds, MaxRaceDeclared),
        ft \in {"integration", "script"},
        a \in {"True", "None"} }

InitRace ==
    /\ conf \in RaceFiles
    /\ callers \in {<<c1, c2>> : c1 \in RaceConfigs(1), c2 \in RaceConfigs(2)}
    /\ data = Item(Slack, <<>>)
    /\ source_file_type = "integration"
    /\ assume_answer = "None"
    /\ call = NoCall
    /\ fixture = Constructed
    /\ Unformatted

\* how many writes of the file there have been
Writes == Cardinality({p \in DOMAIN callers : callers[p].nth_write > 0})

\* the process returned, or an exception left its handler
Finish(p, outcome, content) ==
    callers' = [callers EXCEPT ![p] =
        [@ EXCEPT !.pc = "done", !.outcome = Summary(outcome),
                  !.conf_json_content = content,
                  !.nth_write = IF outcome.wrote THEN Writes + 1 ELSE 0]]

\* update_conf_json up to  conf_json_content = self._load_conf_file()
UpdateLoad(p) ==
    /\ callers[p].pc = "idle"
    /\ callers[p].op = "update_conf_json"
    /\ LET loaded == load_conf_file(conf)
       IN  IF /\ update_reads_conf_json(callers[p].data)
              /\ loaded.raised = "none"
           THEN callers' = [callers EXCEPT ![p] =
                    [@ EXCEPT !.pc = "loaded",
                              !.conf_json_content = loaded.content]]
           ELSE Finish(p, Skipped(NoDoc), NoDoc)
    /\ UNCHANGED <<conf, data, source_file_type, assume_answer, call, fixture,
                   yml_vars>>

\* update_conf_json from the loaded document to _save_to_conf_json
UpdateStore(p) ==
    /\ callers[p].pc = "loaded"
    /\ callers[p].op = "update_conf_json"
    /\ \E confirm \in BOOLEAN :
         LET outcome == update_loaded_conf_json(
                            callers[p].conf_json_content, callers[p].data,
                            callers[p].file_type, callers[p].assume_answer,
                            confirm)
         IN  /\ conf' = file_after(conf, outcome)
             /\ Finish(p, outcome, outcome.content)
    /\ UNCHANGED <<data, source_file_type, assume_answer, call, fixture,
                   yml_vars>>

\* remove_from_conf_json up to  conf_json_content = self._load_conf_file()
RemoveLoad(p) ==
    /\ callers[p].pc = "idle"
    /\ callers[p].op = "remove_from_conf_json"
    /\ LET loaded == load_conf_file(conf)
       IN  IF loaded.raised = "none"
           THEN callers' = [callers EXCEPT ![p] =
                    [@ EXCEPT !.pc = "loaded",
                              !.conf_json_content = loaded.content]]
           ELSE Finish(p, Skipped(NoDoc), NoDoc)
    /\ UNCHANGED <<conf, data, source_file_type, assume_answer, call, fixture,
                   yml_vars>>

\* remove_from_conf_json from the loaded document to _save_to_conf_json
RemoveStore(p) ==
    /\ callers[p].pc = "loaded"
    /\ callers[p].op = "remove_from_conf_json"
    /\ LET outcome == remove_loaded_from_conf_json(
                          callers[p].conf_json_content, callers[p].data,
                          callers[p].file_type,
                          get_file_id(callers[p].file_type, callers[p].data))
       IN  /\ conf' = file_after(conf, outcome)
           /\ Finish(p, outcome, outcome.content)
    /\ UNCHANGED <<data, source_file_type, assume_answer, call, fixture,
                   yml_vars>>

NextRace ==
    \E p \in Callers :
        \/ UpdateLoad(p)
        \/ UpdateStore(p)
        \/ RemoveLoad(p)
        \/ RemoveStore(p)

SpecRace == InitRace /\ [][NextRace]_vars

(***************************************************************************)
(* The YAML side: one formatter on one content item.  update_yml,          *)
(* run_format and format_file are called in any order; update_tests reads  *)
(* assume_answer and add_tests where those read deprecate, old_file and    *)
(* the registry, and has a specification of its own.                       *)
(***************************************************************************)
\* the registry files the formatter starts from
FormatFiles ==
    {NoFile, File(Malformed),
     File(WellFormed(<<Entry(TPB1, Scalar(Slack)), Entry(TPB2, Scalar(Jira))>>))}

\* the test playbooks of the pack, and the TestPlaybooks directories
TestPlaybook1 == TestPlaybook(TPB1, <<Command("send-message", "Slack")>>, <<>>)
TestPlaybook2 ==
    TestPlaybook(TPB2, <<Command("send-message", "Jira")>>, <<"Helper">>)
Dirs == {NoDir, Dir(<<>>), Dir(<<TestPlaybook1, TestPlaybook2>>)}

\* what get_scripts_and_commands_from_yml_data finds in the item
ItemCommands ==
    {<<>>, <<Command("send-message", "")>>, <<Command("send-message", "Jira")>>}
ItemScripts == {<<>>, <<"Helper">>}

\* the codes initiate_file_validator returns
ReturnCodes == {SUCCESS_RETURN_CODE, ERROR_RETURN_CODE, SKIP_RETURN_CODE}

InitFormat ==
    /\ conf \in FormatFiles
    /\ data \in {Item(Slack, t) : t \in SeqsUpTo(TestIds, MaxFormatDeclared)}
    /\ source_file_type \in FileTypes
    /\ assume_answer = "None"
    /\ deprecate \in BOOLEAN
    /\ add_tests = TRUE
    /\ old_file \in {NoOldFile, OldFile(<<TPB2>>)}
    /\ output_file = NotSaved
    /\ run = NoRun
    /\ call = NoCall
    /\ callers = <<>>
    /\ fixture = Constructed

\* the record of a call that is about to run
Began(op) ==
    [NoRun EXCEPT !.op = op, !.data = data, !.conf = conf,
                  !.output_file = output_file]

\* the record of a call that went through update_yml
Updating(op, file_type, formatted) ==
    [Began(op) EXCEPT !.file_type = file_type, !.raised = formatted.raised,
                      !.removed = formatted.removed,
                      !.removed_data = formatted.removed_data]

\* a subclass calls update_tests(); dir, commands and scripts are what it reads
\* from the pack and the item, confirm what the user would answer
UpdateTests ==
    /\ \E dir \in Dirs, commands \in ItemCommands, scripts \in ItemScripts,
          confirm \in BOOLEAN :
           \E tested \in {update_tests(data, assume_answer, add_tests, dir,
                                       commands, scripts, confirm)} :
               /\ data' = tested.data
               /\ run' = [Began("update_tests") EXCEPT
                              !.test_playbook_ids = tested.test_playbook_ids,
                              !.asked = tested.asked,
                              !.answer = tested.asked /\ confirm]
    /\ UNCHANGED <<conf, source_file_type, assume_answer, call, callers, fixture,
                   deprecate, add_tests, old_file, output_file>>

\* a subclass calls update_yml, with its own file type or with none; an
\* exception of a step leaves update_yml
UpdateYml ==
    /\ \E file_type \in {"", source_file_type}, user_input \in UserInputs :
           \E formatted \in {update_yml(conf, data, old_file, source_file_type,
                                       deprecate, file_type, user_input)} :
               /\ data' = formatted.data
               /\ conf' = formatted.conf
               /\ run' = [Updating("update_yml", file_type, formatted) EXCEPT
                              !.escaped = formatted.raised # "none"]
    /\ UNCHANGED <<source_file_type, assume_answer, call, callers, fixture,
                   deprecate, add_tests, old_file, output_file>>

\* run_format()
RunFormat ==
    /\ \E user_input \in UserInputs :
           \E ran \in {run_format(conf, data, old_file, source_file_type,
                                 deprecate, output_file, user_input)} :
               /\ data' = ran.formatted.data
               /\ conf' = ran.formatted.conf
               /\ output_file' = ran.output_file
               /\ run' = [Updating("run_format", "", ran.formatted) EXCEPT
                              !.returned = <<ran.format_res>>]
    /\ UNCHANGED <<source_file_type, assume_answer, call, callers, fixture,
                   deprecate, add_tests, old_file>>

\* format_file(); validation is what initiate_file_validator returns if called
FormatFile ==
    /\ \E user_input \in UserInputs, validation \in ReturnCodes :
           \E ran \in {run_format(conf, data, old_file, source_file_type,
                                 deprecate, output_file, user_input)} :
               /\ data' = ran.formatted.data
               /\ conf' = ran.formatted.conf
               /\ output_file' = ran.output_file
               /\ run' = [Updating("format_file", "", ran.formatted) EXCEPT
                              !.returned = format_file_returns(ran.format_res,
                                                               validation),
                              !.validated = validates(ran.format_res)]
    /\ UNCHANGED <<source_file_type, assume_answer, call, callers, fixture,
                   deprecate, add_tests, old_file>>

NextFormat ==
    \/ UpdateYml
    \/ RunFormat
    \/ FormatFile

SpecFormat == InitFormat /\ [][NextFormat]_vars

\* update_tests on its own: a formatter with any assume_answer and add_tests
InitTests ==
    /\ data \in {Item(Slack, t) : t \in SeqsUpTo(TestIds, MaxFormatDeclared)}
    /\ assume_answer \in AssumeAnswers
    /\ add_tests \in BOOLEAN
    /\ source_file_type \in FileTypes
    /\ conf = NoFile
    /\ deprecate = FALSE
    /\ old_file = NoOldFile
    /\ output_file = NotSaved
    /\ run = NoRun
    /\ call = NoCall
    /\ callers = <<>>
    /\ fixture = Constructed

NextTests == UpdateTests

SpecTests == InitTests /\ [][NextTests]_vars

(***************************************************************************)
(* The fixture on its own: test code constructs a ConfJSON and calls       *)
(* write_json on it any number of times.                                   *)
(***************************************************************************)
InitFixture ==
    /\ fixture = Constructed
    /\ conf = NoFile
    /\ data = Item(Slack, <<>>)
    /\ source_file_type = "integration"
    /\ assume_answer = "None"
    /\ call = NoCall
    /\ callers = <<>>
    /\ Unformatted

\* test code calls write_json(...)
WriteJson ==
    /\ \E tests \in TestsGiven, skipped_tests \in SkippedGiven,
          skipped_integrations \in SkippedGiven,
          unmockable_integrations \in SkippedGiven,
          docker_thresholds \in ThresholdsGiven :
           fixture' = Written(Given(tests, skipped_tests, skipped_integrations,
                                    unmockable_integrations, docker_thresholds))
    /\ UNCHANGED <<conf, data, source_file_type, assume_answer, call, callers,
                   yml_vars>>

NextFixture == WriteJson

SpecFixture == InitFixture /\ [][NextFixture]_vars

(***************************************************************************)
(* Properties.                                                             *)
(***************************************************************************)
Updated == call.op = "update_conf_json"
Removed == call.op = "remove_from_conf_json"

\* the handler call went through on a registry file that had a tests key
OnRegistry == call.pre.exists /\ call.pre.doc.has_tests

\* the declared list holds a "no tests" sentinel
HasSentinel(tests) == \E i \in DOMAIN tests : IsSentinel(tests[i])

\* a is b with some elements left out
RECURSIVE IsSubsequence(_, _)
IsSubsequence(a, b) ==
    IF a = <<>> THEN TRUE
    ELSE IF b = <<>> THEN FALSE
    ELSE IF Head(a) = Head(b) THEN IsSubsequence(Tail(a), Tail(b))
    ELSE IsSubsequence(a, Tail(b))

\* C1: after update_conf_json has appended the entries for the unregistered
\* ids, none of the item's declared tests is reported as unregistered any more
C1_RegisterThenNoneUnregistered ==
    (Updated /\ call.outcome.wrote) =>
        get_not_registered_tests(conf.doc.tests, data.id, call.file_type,
                                 call.tests) = <<>>

\* an integration registered two tests in a registry that already had entries
C1_Witness ==
    /\ Updated /\ call.outcome.wrote
    /\ call.file_type = "integration"
    /\ Len(call.outcome.added) = 2
    /\ call.pre.doc.tests # <<>>

\* the entry registerTests builds for one id
NewEntry(id, content_item_id, file_type) ==
    Entry(id, IF file_type = "integration" THEN Scalar(content_item_id) ELSE Absent)

\* C2: update_conf_json appends one entry per unregistered id, in order, after
\* the entries that were there, and saves every other top-level field as it was
C2_RegisterAppendsOnly ==
    (Updated /\ call.outcome.wrote) =>
        /\ conf.exists
        /\ conf.doc.tests =
               call.pre.doc.tests \o
               [i \in DOMAIN call.outcome.not_registered |->
                   NewEntry(call.outcome.not_registered[i], data.id, call.file_type)]
        /\ call.outcome.not_registered # <<>>
        /\ conf.doc.skipped_tests = call.pre.doc.skipped_tests
        /\ conf.doc.skipped_integrations = call.pre.doc.skipped_integrations
        /\ conf.doc.unmockable_integrations = call.pre.doc.unmockable_integrations
        /\ conf.doc.docker_thresholds = call.pre.doc.docker_thresholds

\* a script registered a test behind three entries that were there
C2_Witness ==
    /\ Updated /\ call.outcome.wrote
    /\ call.file_type = "script"
    /\ Len(call.pre.doc.tests) = 3
    /\ Len(conf.doc.tests) = 4

\* the entry is linked to the content item the way findUnregistered matches it:
\* by its integrations field for an integration, by its playbookID otherwise
LinkedTo(entry, content_item_id, file_type, test_playbooks) ==
    IF file_type = "integration"
    THEN IntegrationsContain(entry.integrations, content_item_id)
    ELSE entry.playbookID \in Range(test_playbooks)

\* the entries of a tests list that are not linked to the formatted item
NotLinked(tests) ==
    SelectSeq(tests, LAMBDA e : ~LinkedTo(e, data.id, call.file_type, call.tests))

\* the integrations field names content items and the formatted item is not one
NamesOtherItem(entry, content_item_id) ==
    /\ entry.integrations.kind # "absent"
    /\ ~IntegrationsContain(entry.integrations, content_item_id)

Remains(after, before, content_item_id) ==
    \/ after = before
    \/ /\ before.integrations.kind = "list"
       /\ after = Entry(before.playbookID,
                        List(OtherIntegrations(before.integrations, content_item_id)))

\* the entries of post are entries of pre that remain, in pre's order
RECURSIVE RemainInOrder(_, _, _)
RemainInOrder(post, pre, content_item_id) ==
    IF post = <<>> THEN TRUE
    ELSE IF pre = <<>> THEN FALSE
    ELSE IF Remains(Head(post), Head(pre), content_item_id)
    THEN RemainInOrder(Tail(post), Tail(pre), content_item_id)
    ELSE RemainInOrder(post, Tail(pre), content_item_id)

\* unrelated to the item as C4 states it: for a script or playbook an entry
\* with a declared playbookID whose integrations names another item is unrelated
UnrelatedAsClaimed(tests) ==
    SelectSeq(tests,
              LAMBDA e : \/ ~LinkedTo(e, data.id, call.file_type, call.tests)
                         \/ /\ call.file_type # "integration"
                            /\ NamesOtherItem(e, data.id))

C5_ExplicitNoTestsIdentity ==
    (Removed /\ OnRegistry /\ HasSentinel(call.tests)) =>
        /\ call.outcome.raised = "none"
        /\ conf.exists
        /\ conf.doc.tests = call.pre.doc.tests

\* an integration with a sentinel kept the entries that name it
C5_Witness ==
    /\ Removed /\ OnRegistry /\ HasSentinel(call.tests)
    /\ call.file_type = "integration"
    /\ \E i \in DOMAIN conf.doc.tests :
           IntegrationsContain(conf.doc.tests[i].integrations, data.id)

\* C6 as stated: update_conf_json finds unregistered exactly the declared ids that
\* are no sentinel and have no matching entry, in declared order, skipping
\* sentinels one id at a time
C6_AsStated ==
    (Updated /\ OnRegistry) =>
        call.outcome.not_registered =
            get_not_registered_tests(call.pre.doc.tests, data.id,
                                     call.file_type, call.tests)

\* C6 (amended): update_conf_json finds nothing unregistered when any declared id
\* is a sentinel (the whole list is skipped, also its real ids); with no sentinel
\* declared it finds exactly the declared ids with no matching entry, in declared
\* order; registry [{TPB1, integrations Slack}], integration Slack, declared
\* [TPB1, TPB2] gives [TPB2]
C6_FindUnregistered ==
    (Updated /\ OnRegistry) =>
        /\ HasSentinel(call.tests) => call.outcome.not_registered = <<>>
        /\ ~HasSentinel(call.tests) =>
               call.outcome.not_registered =
                   SelectSeq(call.tests,
                             LAMBDA t : ~is_registered(call.pre.doc.tests, data.id,
                                                       call.file_type, t))
        /\ ( /\ call.pre.doc.tests = <<Entry(TPB1, Scalar(Slack))>>
             /\ call.file_type = "integration"
             /\ call.tests = <<TPB1, TPB2>> )
           => call.outcome.not_registered = <<TPB2>>

\* the scenario: TPB1 is registered for Slack, TPB2 is found unregistered
C6_Witness ==
    /\ Updated /\ OnRegistry
    /\ call.pre.doc.tests = <<Entry(TPB1, Scalar(Slack))>>
    /\ call.file_type = "integration"
    /\ call.tests = <<TPB1, TPB2>>
    /\ call.outcome.not_registered = <<TPB2>>

\* what deregistering an integration makes of one entry: nothing, the entry
\* without the item's id, or the entry itself
DeregisteredEntry(e, content_item_id) ==
    IF ~IntegrationsContain(e.integrations, content_item_id) THEN <<e>>
    ELSE IF e.integrations.kind = "scalar" THEN <<>>
    ELSE IF \A i \in DOMAIN e.integrations.ids :
                e.integrations.ids[i] = content_item_id
    THEN <<>>
    ELSE <<Entry(e.playbookID,
                 List(SelectSeq(e.integrations.ids,
                                LAMBDA x : x # content_item_id)))>>

RECURSIVE DeregisteredIntegration(_, _)
DeregisteredIntegration(tests, content_item_id) ==
    IF tests = <<>> THEN <<>>
    ELSE DeregisteredEntry(Head(tests), content_item_id)
         \o DeregisteredIntegration(Tail(tests), content_item_id)

\* C7: for an integration with no sentinel declared, remove_from_conf_json drops
\* the entries whose integrations is the item's id or a list of only that id,
\* takes the id out of the lists that name other items too and keeps those
\* entries; registry [{TPB1, integrations Slack}], Slack, [TPB1] gives []
C7_IntegrationDeregistered ==
    (Removed /\ OnRegistry /\ call.file_type = "integration"
             /\ ~HasSentinel(call.tests)) =>
        /\ conf.doc.tests = DeregisteredIntegration(call.pre.doc.tests, data.id)
        /\ ( call.pre.doc.tests = <<Entry(TPB1, Scalar(Slack))>>
             /\ call.tests = <<TPB1>> ) => conf.doc.tests = <<>>

\* a shared entry lost the item's id and kept the others in their order, while
\* an entry of the item alone went
C7_Witness ==
    /\ Removed /\ OnRegistry /\ call.file_type = "integration"
    /\ ~HasSentinel(call.tests)
    /\ Entry(TPB1, Scalar(Slack)) \in Range(call.pre.doc.tests)
    /\ Entry(TPB1, List(<<Jira, Slack, "Okta">>)) \in Range(call.pre.doc.tests)
    /\ conf.doc.tests = <<Entry(TPB1, List(<<Jira, "Okta">>))>>

\* C8: with no registry file, update_conf_json and remove_from_conf_json return
\* without an exception, create no file and leave the formatter's data alone
C8_AbsentRegistrySkipped ==
    (call.op # "none" /\ ~call.pre.exists) =>
        /\ call.outcome.raised = "none"
        /\ ~call.outcome.wrote
        /\ ~conf.exists
        /\ call.data_after = Item(data.id, call.tests)

\* remove_from_conf_json for an item with real tests found no registry file
C8_Witness ==
    /\ Removed /\ ~call.pre.exists
    /\ call.tests = <<TPB1, TPB2>>
    /\ ~conf.exists

\* C9 as stated: on a document with no tests key both handlers fail with an
\* error and leave the file as it was
C9_AsStated ==
    (call.op # "none" /\ call.pre.exists /\ ~call.pre.doc.has_tests) =>
        /\ call.outcome.raised = "KeyError"
        /\ conf = call.pre

\* C9 (amended): on a document with no tests key remove_from_conf_json fails
\* with KeyError, update_conf_json fails with KeyError when the item declares
\* tests and none is a sentinel and returns without reading the file otherwise;
\* in every case the file is left as it was
C9_MalformedRegistry ==
    (call.op # "none" /\ call.pre.exists /\ ~call.pre.doc.has_tests) =>
        /\ Removed => call.outcome.raised = "KeyError"
        /\ Updated =>
               (call.outcome.raised = "KeyError"
                    <=> (call.tests # <<>> /\ ~HasSentinel(call.tests)))
        /\ call.outcome.raised \in {"KeyError", "none"}
        /\ ~call.outcome.wrote
        /\ conf = call.pre

\* update_conf_json failed on a malformed document and the file is as before
C9_Witness ==
    /\ Updated /\ call.pre.exists /\ ~call.pre.doc.has_tests
    /\ call.outcome.raised = "KeyError"
    /\ conf = File(Malformed)

\* both processes are through with their handlers
BothDone == \A p \in Callers : callers[p].pc = "done"

\* C10: nothing keeps the two read-mutate-write cycles apart: whatever the
\* other process saved in between, the file holds exactly the document of the
\* process that saved last (its copy of what it had loaded, changed), so a
\* state is reached where both calls succeeded and one's entries are gone
C10_LastWriteWins ==
    (callers # <<>>) =>
        \A p \in Callers :
            (callers[p].nth_write > 0 /\ callers[p].nth_write = Writes) =>
                conf = File(callers[p].conf_json_content)

\* both update_conf_json calls returned after saving their entries, and the
\* stored registry has none of the entries the first process added
C10_Witness ==
    /\ callers # <<>> /\ BothDone
    /\ \A p \in Callers : /\ callers[p].op = "update_conf_json"
                          /\ callers[p].outcome.raised = "none"
                          /\ callers[p].outcome.wrote
                          /\ callers[p].outcome.added # <<>>
    /\ \A i \in DOMAIN callers[1].outcome.added :
           callers[1].outcome.added[i] \notin Range(conf.doc.tests)

EmptyArray == json_dumps_value(PyList(<<>>))
EmptyObject == json_dumps_value(PyDict(<<>>))

\* C12 as stated: the file write_json writes has exactly the five top-level keys, and a
\* key whose argument the caller leaves unset is written as an empty sequence
\* (tests, skipped_tests, skipped_integrations, unmockable_integrations) or as
\* an empty mapping (docker_thresholds)
C12_AsStated ==
    /\ DOMAIN fixture.file =
           {"tests", "skipped_tests", "skipped_integrations",
            "unmockable_integrations", "docker_thresholds"}
    /\ \A k \in {"tests", "skipped_tests", "skipped_integrations",
                  "unmockable_integrations"} :
           fixture.given[k] = None => fixture.file[k] = EmptyArray
    /\ fixture.given.docker_thresholds = None =>
           fixture.file.docker_thresholds = EmptyObject

\* the answer update_conf_json acts on: the preset one, or the callback's
AnswerIsYes ==
    \/ assume_answer = "True"
    \/ assume_answer = "None" /\ call.answer

\* C13: update_conf_json consults the callback exactly when something is
\* unregistered and assume_answer is None; with something unregistered and the
\* answer no the file is left as it was, with the answer yes one entry per
\* unregistered id is appended and saved, and then every declared test of an
\* integration has an entry whose integrations names the item
C13_BranchesOnConfirmation ==
    (Updated /\ OnRegistry) =>
        /\ call.outcome.asked <=>
               (assume_answer = "None" /\ call.outcome.not_registered # <<>>)
        /\ (call.outcome.not_registered # <<>> /\ ~AnswerIsYes) =>
               /\ ~call.outcome.wrote
               /\ conf = call.pre
        /\ (call.outcome.not_registered # <<>> /\ AnswerIsYes) =>
               /\ call.outcome.wrote
               /\ conf.doc.tests =
                      call.pre.doc.tests \o
                      [i \in DOMAIN call.outcome.not_registered |->
                          NewEntry(call.outcome.not_registered[i], data.id,
                                   call.file_type)]
               /\ \A i \in DOMAIN call.tests :
                      (call.file_type = "integration" /\ ~IsSentinel(call.tests[i]))
                      => \E j \in DOMAIN conf.doc.tests :
                             /\ conf.doc.tests[j].playbookID = call.tests[i]
                             /\ IntegrationsContain(conf.doc.tests[j].integrations,
                                                    data.id)

\* the user was asked about an integration's unregistered test and said no
C13_Witness ==
    /\ Updated /\ OnRegistry
    /\ call.file_type = "integration"
    /\ call.outcome.not_registered = <<TPB2>>
    /\ call.outcome.asked /\ ~call.answer
    /\ conf = call.pre

\* the declared list holds a sentinel next to a real test-playbook id
Mixed(tests) ==
    /\ HasSentinel(tests)
    /\ \E i \in DOMAIN tests : ~IsSentinel(tests[i])

\* C14 as stated: remove_from_conf_json gives explicitNoTests as true only when
\* every declared test is a sentinel; with a sentinel next to real ids it gives
\* false and the item's entries are deregistered
C14_AsStated ==
    (Removed /\ OnRegistry) =>
        /\ call.explicitly =>
               \A i \in DOMAIN call.tests : IsSentinel(call.tests[i])
        /\ Mixed(call.tests) =>
               /\ ~call.explicitly
               /\ conf.doc.tests =
                      search_and_delete_from_conf(call.pre.doc.tests, data.id,
                                                  call.file_type, call.tests,
                                                  FALSE)

\* C14 (amended): remove_from_conf_json gives explicitNoTests as true exactly
\* when some declared test is a sentinel; with a sentinel next to real ids it
\* gives true and the registry's tests stay as they were
C14_AnySentinelIsExplicit ==
    (Removed /\ OnRegistry) =>
        /\ call.explicitly <=> HasSentinel(call.tests)
        /\ conf.doc.tests =
               search_and_delete_from_conf(call.pre.doc.tests, data.id,
                                           call.file_type, call.tests,
                                           HasSentinel(call.tests))
        /\ Mixed(call.tests) => conf.doc.tests = call.pre.doc.tests

\* an integration declaring a sentinel and TPB1 kept its TPB1 entry
C14_Witness ==
    /\ Removed /\ OnRegistry
    /\ call.file_type = "integration"
    /\ call.tests = <<NoTests, TPB1>>
    /\ call.explicitly
    /\ Entry(TPB1, Scalar(Slack)) \in Range(conf.doc.tests)

\* the call that ended last went through update_yml
Formats == run.op \in {"update_yml", "run_format", "format_file"}

\* the item's declared tests when update_yml comes to  if self.deprecate:  the
\* tests it had before the call, or the old file's if it had none
DeclaredAtCall ==
    IF run.data.tests = <<>> /\ old_file.exists /\ old_file.tests # <<>>
    THEN old_file.tests
    ELSE run.data.tests

\* remove_from_conf_json was called exactly for an integration or a script,
\* with data as it was before the call but for the tests copied from the old
\* file, so before update_deprecate had changed anything
DeregisteredFirst ==
    /\ run.removed <=> source_file_type \in {"integration", "script"}
    /\ run.removed =>
           run.removed_data = [run.data EXCEPT !.tests = DeclaredAtCall]
    /\ (run.removed /\ run.data.tests # <<>> /\ ~HasSentinel(run.data.tests)) =>
           run.removed_data.tests # <<NO_TESTS_DEPRECATED>>

\* C15 as stated: in update_yml with deprecate set, remove_from_conf_json runs
\* (for an integration or a script only) on the item's original declared
\* tests, and afterwards update_deprecate has set deprecated and replaced
\* tests with the single deprecated sentinel
C15_AsStated ==
    (Formats /\ deprecate) =>
        /\ DeregisteredFirst
        /\ run.raised = "none" =>
               /\ data.deprecated
               /\ data.tests = <<NO_TESTS_DEPRECATED>>

\* C15 (amended): in update_yml with deprecate set, remove_from_conf_json runs
\* (for an integration or a script only) on the item's original declared
\* tests; if it raises, update_deprecate does not run; otherwise update_deprecate
\* sets deprecated, and replaces tests with the single deprecated sentinel
\* when the item has tests or update_yml was given the file type integration,
\* playbook or script, and leaves the empty tests as they are when not
C15_DeregisterBeforeDeprecate ==
    (Formats /\ deprecate) =>
        /\ DeregisteredFirst
        /\ run.raised = "KeyError" => (run.removed /\ data = run.removed_data)
        /\ run.raised \in {"none", "EOFError"} =>
               /\ data.deprecated
               /\ data.tests =
                      IF \/ DeclaredAtCall # <<>>
                         \/ run.file_type \in {INTEGRATION, PLAYBOOK, SCRIPT}
                      THEN <<NO_TESTS_DEPRECATED>>
                      ELSE <<>>

\* a deprecated integration with the test TPB1: its TPB1 entry was taken out
\* of the registry, then its tests became the deprecated sentinel
C15_Witness ==
    /\ run.op = "update_yml" /\ deprecate
    /\ source_file_type = "integration"
    /\ run.removed /\ run.removed_data.tests = <<TPB1>>
    /\ run.raised = "none"
    /\ run.conf.exists /\ Len(run.conf.doc.tests) = 2
    /\ conf.doc.tests = <<Entry(TPB2, Scalar(Jira))>>
    /\ data.deprecated /\ data.tests = <<NO_TESTS_DEPRECATED>>

\* C16: update_tests leaves an item with tests as it is; for an item with no
\* tests and no matching test playbook in the pack the tests become the auto
\* formatted sentinel exactly when assume_answer is true, add_tests is false,
\* or assume_answer is None and the user confirms, the user being asked
\* only when assume_answer is None and add_tests is true; when matching test
\* playbooks are found the tests become their ids, with no sentinel
C16_UpdateTests ==
    (run.op = "update_tests") =>
        /\ run.data.tests # <<>> => (data = run.data /\ ~run.asked)
        /\ (run.data.tests = <<>> /\ run.test_playbook_ids = <<>>) =>
               /\ data \in {run.data, [run.data EXCEPT !.tests = <<AutoFormatted>>]}
               /\ data.tests = <<AutoFormatted>> <=>
                      \/ assume_answer = "True"
                      \/ ~add_tests
                      \/ assume_answer = "None" /\ run.answer
               /\ run.asked <=> (assume_answer = "None" /\ add_tests)
               /\ (assume_answer = "False" /\ add_tests) =>
                      (data.tests = <<>> /\ ~run.asked)
        /\ (run.data.tests = <<>> /\ run.test_playbook_ids # <<>>) =>
               /\ data = [run.data EXCEPT !.tests = run.test_playbook_ids]
               /\ AutoFormatted \notin Range(data.tests)
               /\ ~run.asked

\* with assume_answer False the sentinel was written without a question,
\* because add_tests is false
C16_Witness ==
    /\ run.op = "update_tests"
    /\ run.data.tests = <<>> /\ run.test_playbook_ids = <<>>
    /\ assume_answer = "False" /\ ~add_tests
    /\ ~run.asked
    /\ data.tests = <<AutoFormatted>>

====
